---- MODULE Spec2Model ----
(***************************************************************************)
(* Streaming render engine of SQLpage (src/src/render.rs).                 *)
(*                                                                         *)
(* SplitTemplateRenderer drives the three zones of a split template        *)
(* (before_list, list_content, after_list); RenderContext dispatches rows  *)
(* and errors to a shell renderer and at most one component renderer.      *)
(*                                                                         *)
(* The sink holds one record per template zone that was rendered, in the   *)
(* order of the writes.  A template evaluation or a write that fails is    *)
(* an input of each call: the `fuse` makes the at-th zone rendering of     *)
(* that call fail, on an error of the template or of the sink, before      *)
(* anything of the zone is written or after the beginning of it; NoFuse    *)
(* lets all renderings succeed.                                            *)
(***************************************************************************)
EXTENDS Integers, Sequences, FiniteSets, TLC

(***************************************************************************)
(* JSON values (serde_json::Value) and JSON text.                          *)
(* A string is the sequence of its lexical tokens, so that parsing it      *)
(* (serde_json::from_str) is a computation on the text.  The content of a  *)
(* string literal is a string again, and the names of the fields of an     *)
(* object are strings.                                                     *)
(***************************************************************************)
Null == [t |-> "null"]
Bool(b) == [t |-> "bool", b |-> b]
Num(n) == [t |-> "num", n |-> n]
Str(text) == [t |-> "str", s |-> text]
Arr(items) == [t |-> "arr", a |-> items]
Obj(fields) == [t |-> "obj", o |-> fields]

\* `levels` >= 1 dynamic rows around `row`: the object {"component": "dynamic",
\* "properties": p} where p is `row` under levels - 1 dynamic rows. It is kept in this
\* compact form so that a row nested hundreds of levels deep stays a small value.
Nest(levels, row) == [t |-> "nest", levels |-> levels, row |-> row]

\* lexical tokens of a text: punctuation, string literal with the text of its
\* content, number, bare word
P(c) == [k |-> "p", p |-> c]
S(text) == [k |-> "s", l |-> text]
N(n) == [k |-> "n", n |-> n]
W(c) == [k |-> "w", w |-> c]

\* the text of a plain word such as a component name, and the string literal of it
Text(word) == <<W(word)>>
Q(word) == S(Text(word))

\* the fields of an object whose names are plain words, given as a record
Named(record) ==
    [name \in {Text(word) : word \in DOMAIN record} |-> record[name[1].w]]

None == <<>>
Some(x) == <<x>>

\* Value::as_object().is_some(), and Value::get(key) of an object
is_object(v) == v.t = "obj" \/ v.t = "nest"
has(v, key) ==
    IF v.t = "nest" THEN key \in {"component", "properties"} ELSE Text(key) \in DOMAIN v.o
get(v, key) ==
    IF v.t # "nest" THEN v.o[Text(key)]
    ELSE IF key = "component" THEN Str(Text("dynamic"))
    ELSE IF v.levels = 1 THEN v.row
    ELSE Nest(v.levels - 1, v.row)

\* result of a parsing step: the value read and the position after it
Parsed(v, next) == [ok |-> TRUE, v |-> v, next |-> next]
ParseFail == [ok |-> FALSE, v |-> Null, next |-> 0]

\* serde_json's Deserializer starts with remaining_depth = 128, takes 1 off at each
\* array or object it enters and fails when none is left
RECURSION_LIMIT == 128

RECURSIVE ParseValue(_, _, _)
RECURSIVE ParseElements(_, _, _, _)
RECURSIVE ParseMembers(_, _, _, _)

\* the elements of an array after '[' or after ','
ParseElements(toks, i, acc, remaining_depth) ==
    LET e == ParseValue(toks, i, remaining_depth) IN
    IF ~e.ok \/ e.next > Len(toks) THEN ParseFail
    ELSE IF toks[e.next] = P("]") THEN Parsed(Arr(Append(acc, e.v)), e.next + 1)
    ELSE IF toks[e.next] = P(",")
         THEN ParseElements(toks, e.next + 1, Append(acc, e.v), remaining_depth)
    ELSE ParseFail

\* the members of an object after '{' or after ','; a repeated key keeps the last value
ParseMembers(toks, i, acc, remaining_depth) ==
    IF i + 1 > Len(toks) \/ toks[i].k # "s" \/ toks[i + 1] # P(":") THEN ParseFail
    ELSE LET e == ParseValue(toks, i + 2, remaining_depth)
             key == toks[i].l
             more == [f \in (DOMAIN acc) \cup {key} |-> IF f = key THEN e.v ELSE acc[f]]
         IN  IF ~e.ok \/ e.next > Len(toks) THEN ParseFail
             ELSE IF toks[e.next] = P("}") THEN Parsed(Obj(more), e.next + 1)
             ELSE IF toks[e.next] = P(",")
                  THEN ParseMembers(toks, e.next + 1, more, remaining_depth)
             ELSE ParseFail

ParseValue(toks, i, remaining_depth) ==
    IF i > Len(toks) THEN ParseFail
    ELSE LET tok == toks[i] IN
         CASE tok.k = "n" -> Parsed(Num(tok.n), i + 1)
           [] tok.k = "s" -> Parsed(Str(tok.l), i + 1)
           [] tok.k = "w" ->
                IF tok.w = "null" THEN Parsed(Null, i + 1)
                ELSE IF tok.w = "true" THEN Parsed(Bool(TRUE), i + 1)
                ELSE IF tok.w = "false" THEN Parsed(Bool(FALSE), i + 1)
                ELSE ParseFail
           [] tok.k = "p" ->
                IF tok.p \in {"[", "{"} /\ remaining_depth - 1 = 0 THEN ParseFail
                ELSE IF tok.p = "[" THEN
                    IF i + 1 <= Len(toks) /\ toks[i + 1] = P("]")
                    THEN Parsed(Arr(<<>>), i + 2)
                    ELSE ParseElements(toks, i + 1, <<>>, remaining_depth - 1)
                ELSE IF tok.p = "{" THEN
                    IF i + 1 <= Len(toks) /\ toks[i + 1] = P("}")
                    THEN Parsed(Obj(<<>>), i + 2)
                    ELSE ParseMembers(toks, i + 1, <<>>, remaining_depth - 1)
                ELSE ParseFail

\* how many arrays and objects are open after token i of the text
Nesting(text, i) ==
    Cardinality({j \in 1..i : text[j] \in {P("["), P("{")}})
        - Cardinality({j \in 1..i : text[j] \in {P("]"), P("}")}})

\* the text opens RECURSION_LIMIT arrays and objects inside one another. The parser
\* fails on such a text, at that depth or on an error before it; this is the same
\* answer found without descending into the text.
TooDeep(text) == \E i \in DOMAIN text : Nesting(text, i) >= RECURSION_LIMIT

\* serde_json::from_str(s).ok(): the whole text must be one value
from_str(text) ==
    IF TooDeep(text) THEN None
    ELSE LET r == ParseValue(text, 1, RECURSION_LIMIT) IN
         IF r.ok /\ r.next = Len(text) + 1 THEN Some(r.v) ELSE None

(***************************************************************************)
(* SplitTemplateRenderer                                                   *)
(***************************************************************************)
\* SplitTemplateRenderer::new
NewRenderer(name) == [name |-> name, block_context |-> None, row_index |-> 0]

\* the outcome of a renderer call: the renderer, the sink, the fuse and the error
Outcome(r, w, f, e) == [rdr |-> r, writer |-> w, fuse |-> f, err |-> e]

\* the failure of the at-th rendering: `source` is "template" for an error of the
\* template evaluation and "sink" for a write that fails; `part` tells that elements
\* of the zone were written before the failure
Fuse(at, source, part) == [at |-> at, source |-> source, part |-> part]
NoFuse == Fuse(0, "none", FALSE)

\* the beginning of a zone, left in the sink by a rendering that failed
Part(chunk) == [zone |-> "part", of |-> chunk.zone, tpl |-> chunk.tpl]

\* Renderable::render of one zone into the sink: the elements of the zone are
\* evaluated and written (write_all) one after the other
Render(w, fuse, chunk) ==
    IF fuse.at = 1 THEN
        [writer |-> IF fuse.part THEN Append(w, Part(chunk)) ELSE w,
         fuse |-> NoFuse,
         err |-> IF fuse.source = "sink" THEN "Write" ELSE "Render"]
    ELSE [writer |-> Append(w, chunk),
          fuse |-> IF fuse.at > 1 THEN Fuse(fuse.at - 1, fuse.source, fuse.part) ELSE NoFuse,
          err |-> ""]

\* render_start that keeps the row_index of the renderer
render_start_unreset(r, w, fuse, data) ==
    LET out == Render(w, fuse, [zone |-> "before_list", tpl |-> r.name, data |-> data]) IN
    IF out.err # "" THEN Outcome(r, out.writer, out.fuse, out.err)
    ELSE Outcome([r EXCEPT !.block_context = Some(data)], out.writer, out.fuse, "")

render_start(r, w, fuse, data) ==
    LET out == Render(w, fuse, [zone |-> "before_list", tpl |-> r.name, data |-> data]) IN
    IF out.err # "" THEN Outcome(r, out.writer, out.fuse, out.err)
    ELSE Outcome([r EXCEPT !.block_context = Some(data), !.row_index = 0],
                 out.writer, out.fuse, "")

\* render_item that does not stash the outer block context again
render_item_unstashed(r, w, fuse, data) ==
    IF r.block_context = None THEN Outcome(r, w, fuse, "")
    ELSE LET out == Render(w, fuse, [zone |-> "list_content", tpl |-> r.name, data |-> data,
                                     parent |-> r.block_context[1],
                                     row_index |-> r.row_index])
         IN  Outcome([r EXCEPT !.block_context = None,
                               !.row_index = IF out.err = "" THEN @ + 1 ELSE @],
                     out.writer, out.fuse, out.err)

render_item(r, w, fuse, data) ==
    IF r.block_context = None THEN Outcome(r, w, fuse, "")
    ELSE LET parent == r.block_context[1]
             out == Render(w, fuse, [zone |-> "list_content", tpl |-> r.name, data |-> data,
                                     parent |-> parent, row_index |-> r.row_index])
         IN  IF out.err # ""
             THEN Outcome([r EXCEPT !.block_context = None], out.writer, out.fuse, out.err)
             ELSE Outcome([r EXCEPT !.block_context = Some(parent), !.row_index = @ + 1],
                          out.writer, out.fuse, "")

\* render_end that renders after_list whatever the state of the renderer
render_end_unguarded(r, w, fuse) ==
    LET parent == IF r.block_context = None THEN Null ELSE r.block_context[1]
        out == Render(w, fuse, [zone |-> "after_list", tpl |-> r.name, parent |-> parent])
    IN  Outcome([r EXCEPT !.block_context = None], out.writer, out.fuse, out.err)

render_end(r, w, fuse) ==
    IF r.block_context = None THEN Outcome(r, w, fuse, "")
    ELSE LET parent == r.block_context[1]
             out == Render(w, fuse, [zone |-> "after_list", tpl |-> r.name, parent |-> parent])
         IN  Outcome([r EXCEPT !.block_context = None], out.writer, out.fuse, out.err)

(***************************************************************************)
(* RenderContext                                                           *)
(***************************************************************************)
DEFAULT_COMPONENT == Text("default")
MAX_RECURSION_DEPTH == 256

\* app_state.all_templates.split_templates: the names of the registered components
Registry == {"shell", "error", "default", "A", "B"}

\* split_templates.get(component): a template is registered under the text
IsRegistered(component) ==
    Len(component) = 1 /\ component[1].k = "w" /\ component[1].w \in Registry

\* a render context is a record of the fields of RenderContext, with the fuse and
\* the error of the call in progress
NewContext ==
    [writer |-> <<>>,
     current_component |-> None,
     shell_renderer |-> NewRenderer("shell"),
     recursion_depth |-> 0,
     current_statement |-> 1,
     fuse |-> NoFuse,
     err |-> ""]

\* the `?` operator: the call goes on with step F unless c holds an error
Try(c, F(_)) == IF c.err # "" THEN c ELSE F(c)

\* the context after a call o on the shell renderer, and on the current component
with_shell(c, o) ==
    [c EXCEPT !.shell_renderer = o.rdr, !.writer = o.writer, !.fuse = o.fuse, !.err = o.err]
with_component(c, o) ==
    [c EXCEPT !.current_component = Some(o.rdr), !.writer = o.writer, !.fuse = o.fuse,
              !.err = o.err]

\* self.shell_renderer.render_start(&mut self.writer, data)
shell_render_start(c, data) ==
    with_shell(c, render_start(c.shell_renderer, c.writer, c.fuse, data))

\* close_component that renders the end of the component and leaves it Started
close_component_unended(c) ==
    IF c.current_component = None THEN c
    ELSE [with_component(c, render_end(c.current_component[1], c.writer, c.fuse))
             EXCEPT !.current_component = c.current_component]

close_component(c) ==
    IF c.current_component = None THEN c
    ELSE with_component(c, render_end(c.current_component[1], c.writer, c.fuse))

\* create_renderer and set_current_component
set_current_component(c, component) ==
    IF IsRegistered(component)
    THEN [c EXCEPT !.current_component = Some(NewRenderer(component[1].w))]
    ELSE [c EXCEPT !.err = "UnknownComponent"]

\* self.current_component.as_mut().unwrap().render_start(&mut self.writer, json!(data))
current_render_start(c, data) ==
    with_component(c, render_start(c.current_component[1], c.writer, c.fuse, data))

\* open_component_with_data without the close_component() of the open component
open_component_with_data_unclosed(c, component, data) ==
    Try(set_current_component(c, component), LAMBDA c2 : current_render_start(c2, data))

open_component_with_data(c, component, data) ==
    Try(Try(close_component(c),
            LAMBDA c1 : set_current_component(c1, component)),
        LAMBDA c2 : current_render_start(c2, data))

open_component(c, component) == open_component_with_data(c, component, Null)

\* rdr.render_item(&mut self.writer, json!(data)) on the current component
current_render_item(c, data) ==
    with_component(c, render_item(c.current_component[1], c.writer, c.fuse, data))

\* self.shell_renderer.render_item(&mut self.writer, JsonValue::Null)
shell_render_item(c) ==
    with_shell(c, render_item(c.shell_renderer, c.writer, c.fuse, Null))

\* render_current_template_with_data without the render_item of the shell
render_current_template_without_shell(c, data) ==
    IF c.current_component = None THEN [c EXCEPT !.err = "NoComponent"]
    ELSE current_render_item(c, data)

render_current_template_with_data(c, data) ==
    IF c.current_component = None THEN [c EXCEPT !.err = "NoComponent"]
    ELSE Try(current_render_item(c, data), LAMBDA c1 : shell_render_item(c1))

\* data.as_object().and_then(|o| o.get("component")).and_then(|c| c.as_str())
new_component_of(data) ==
    IF is_object(data) /\ has(data, "component") /\ get(data, "component").t = "str"
    THEN Some(get(data, "component").s)
    ELSE None

\* the `properties` of a dynamic row as the list of rows to feed, or None
dynamic_properties(data) ==
    IF ~is_object(data) \/ ~has(data, "properties") THEN None
    ELSE LET props == get(data, "properties") IN
         IF props.t = "str" THEN
             LET parsed == from_str(props.s) IN
             IF parsed = None THEN None
             ELSE IF parsed[1].t = "arr" THEN Some(parsed[1].a)
             ELSE IF parsed[1].t = "obj" THEN Some(<<parsed[1]>>)
             ELSE None
         ELSE IF is_object(props) THEN Some(<<props>>)
         ELSE None

\* the ensure! of render_dynamic, one level late
within_recursion_limit_late(c) == c.recursion_depth <= MAX_RECURSION_DEPTH + 1

\* the ensure! of render_dynamic
within_recursion_limit(c) == c.recursion_depth <= MAX_RECURSION_DEPTH

\* render_dynamic up to its loop: the checks that let the loop over the properties start
render_dynamic(c, data) ==
    IF ~within_recursion_limit(c) THEN [c EXCEPT !.err = "RecursionLimit"]
    ELSE IF dynamic_properties(data) = None THEN [c EXCEPT !.err = "BadDynamic"]
    ELSE c

\* the match arm of handle_row that calls render_dynamic
is_dynamic(c, data) ==
    c.current_component # None /\ new_component_of(data) = Some(Text("dynamic"))

\* handle_row; of a dynamic row, up to the loop of render_dynamic, which the steps
\* LoopCall, LoopReturn and LoopEnd below run
handle_row(c, data) ==
    IF c.current_component = None
         /\ (new_component_of(data) = Some(Text("head")) \/ new_component_of(data) = None) THEN
        Try(shell_render_start(c, data),
            LAMBDA c1 : open_component_with_data(c1, DEFAULT_COMPONENT, data))
    ELSE IF c.current_component = None THEN
        Try(shell_render_start(c, Null),
            LAMBDA c1 : open_component_with_data(c1, new_component_of(data)[1], data))
    ELSE IF new_component_of(data) = Some(Text("dynamic")) THEN render_dynamic(c, data)
    ELSE IF new_component_of(data) # None THEN
        open_component_with_data(c, new_component_of(data)[1], data)
    ELSE render_current_template_with_data(c, data)

\* handle_row(data) has entered the loop of render_dynamic
enters_loop(c, data) == is_dynamic(c, data) /\ render_dynamic(c, data).err = ""

\* the loop of render_dynamic over `properties`, about to feed properties[next]; or,
\* when called, waiting for handle_row(properties[next]) to return
Loop(properties) == [properties |-> properties, next |-> 1, called |-> FALSE]

\* finish_query that ends the open component with the statement
finish_query_closing(c) == [close_component(c) EXCEPT !.current_statement = @ + 1]

\* self.recursion_depth += 1 before the handle_row of a row of `properties`
descend(c) == [c EXCEPT !.recursion_depth = @ + 1]

\* the return from that handle_row without the decrement
ascend_undone(c) == c

\* self.recursion_depth -= 1 after the handle_row of a row of `properties`
ascend(c) == [c EXCEPT !.recursion_depth = @ - 1]

finish_query(c) == [c EXCEPT !.current_statement = @ + 1]

\* an error (std::error::Error): what it displays and the error it comes from
Error(description, source) == [description |-> description, source |-> source]

\* the Display of every error of the chain of source()
RECURSIVE backtrace(_)
backtrace(source) ==
    IF source = None THEN <<>>
    ELSE <<Str(Text(source[1].description))>> \o backtrace(source[1].source)

\* the data handle_error renders the error component with
error_data(c, error) ==
    Obj(Named([query_number |-> Num(c.current_statement),
         description |-> Str(Text(error.description)),
         backtrace |-> Arr(backtrace(error.source))]))

\* handle_error once the open component is closed or the shell started: the error
\* component is opened, rendered and closed, and the saved component is current again
render_error(c, saved_component, data) ==
    Try(Try(Try(Try(c,
                    LAMBDA c2 : open_component(c2, Text("error"))),
                LAMBDA c3 : render_current_template_with_data(c3, data)),
            LAMBDA c4 : close_component(c4)),
        LAMBDA c5 : [c5 EXCEPT !.current_component = saved_component])

\* handle_error that hands an error of its own steps to error handling once more
handle_error_again(c, error) ==
    LET first ==
            Try(IF c.current_component # None THEN close_component(c)
                ELSE shell_render_start(c, Null),
                LAMBDA c1 : render_error([c1 EXCEPT !.current_component = None],
                                         c1.current_component, error_data(c1, error)))
    IN  IF first.err = "" THEN first
        ELSE render_error([first EXCEPT !.err = "", !.current_component = None],
                          first.current_component,
                          error_data(first, Error(first.err, None)))

\* handle_error up to `let saved_component = self.current_component.take()`
error_entry(c) ==
    IF c.current_component # None THEN close_component(c) ELSE shell_render_start(c, Null)

handle_error(c, error) ==
    Try(error_entry(c),
        LAMBDA c1 : render_error([c1 EXCEPT !.current_component = None],
                                 c1.current_component, error_data(c1, error)))

\* the RenderError a rendering has failed with: that of a write that failed has the
\* io::Error of the sink as its source
RenderError(err) ==
    Error(err, IF err = "Write" THEN Some(Error("sink failed", None)) ELSE None)

\* handle_result then handle_result_and_log on the result `err` of a rendering call:
\* an error goes to handle_error, whose own error is logged and dropped
handle_result_and_log(c, err) ==
    IF err = "" THEN c
    ELSE [handle_error(c, RenderError(err)) EXCEPT !.err = ""]

\* the context after a render_end that close() made, with its result handled
after_render_end(c, o) ==
    handle_result_and_log([c EXCEPT !.writer = o.writer, !.fuse = o.fuse], o.err)

\* close(): the end of the open component
close_current(c) ==
    IF c.current_component = None THEN c
    ELSE after_render_end([c EXCEPT !.current_component = None],
                          render_end(c.current_component[1], c.writer, c.fuse))

\* close(): the end of the shell
after_shell_end(c, o) == after_render_end([c EXCEPT !.shell_renderer = o.rdr], o)
close_shell(c) == after_shell_end(c, render_end(c.shell_renderer, c.writer, c.fuse))

close(c) == close_shell(close_current(c))

(***************************************************************************)
(* Inputs                                                                  *)
(***************************************************************************)
MaxCalls == 4           \* calls on a render context before close(), nothing failing
MaxFaultyCalls == 2     \* the same, when renderings may fail
MaxFuse == 5            \* a failing rendering is among the first MaxFuse of its call
MaxFaults == 1          \* calls of a run in which a rendering fails
MaxDynamicCalls == 2    \* calls before close() on a context fed dynamic rows
MaxRendererCalls == 4   \* calls on the renderer that is driven directly

RowX(n) == Obj(Named([x |-> Num(n)]))
RowC(name, n) == Obj(Named([component |-> Str(Text(name)), x |-> Num(n)]))
Dynamic(props) == Obj(Named([component |-> Str(Text("dynamic")), properties |-> props]))

\* the text [{"component":"A","x":9},{"x":2}]
TextArray ==
    <<P("["), P("{"), Q("component"), P(":"), Q("A"), P(","), Q("x"), P(":"), N(9), P("}"),
      P(","), P("{"), Q("x"), P(":"), N(2), P("}"), P("]")>>

\* a row whose `component` is not a string
RowNonString == Obj(Named([component |-> Num(5), x |-> Num(1)]))

\* the rows a query feeds to the dispatcher
Rows == {RowX(1), RowX(2), RowC("A", 1), RowC("B", 3), RowC("nope", 1),
         Dynamic(Str(TextArray)), RowC("head", 1), RowNonString}

\* the texts {"component":"B","x":3}, [{"component":"nope"},{"x":2}], [{ and 7
TextObject ==
    <<P("{"), Q("component"), P(":"), Q("B"), P(","), Q("x"), P(":"), N(3), P("}")>>
TextArrayUnknown ==
    <<P("["), P("{"), Q("component"), P(":"), Q("nope"), P("}"),
      P(","), P("{"), Q("x"), P(":"), N(2), P("}"), P("]")>>
TextTruncated == <<P("["), P("{")>>
TextNumber == <<N(7)>>

\* the text [{"x":1},{"component":"dynamic"},{"x":2}]
TextArrayDynamic ==
    <<P("["), P("{"), Q("x"), P(":"), N(1), P("}"),
      P(","), P("{"), Q("component"), P(":"), Q("dynamic"), P("}"),
      P(","), P("{"), Q("x"), P(":"), N(2), P("}"), P("]")>>

\* the text [{"component":"dynamic","properties":"{\"x\":1}"}], in which the rows of
\* the dynamic row are a text again
TextInner == <<P("{"), Q("x"), P(":"), N(1), P("}")>>
TextNestedString ==
    <<P("["), P("{"), Q("component"), P(":"), Q("dynamic"), P(","),
      Q("properties"), P(":"), S(TextInner), P("}"), P("]")>>

\* the text of RECURSION_LIMIT arrays inside one another: [[[ ... ]]]
TextDeepArray ==
    [i \in 1..(2 * RECURSION_LIMIT) |-> IF i <= RECURSION_LIMIT THEN P("[") ELSE P("]")]

\* row nested in `levels` dynamic rows, each carrying the next as its `properties` object
Nested(levels, row) == IF levels = 0 THEN row ELSE Nest(levels, row)

\* a plain row under MAX_RECURSION_DEPTH + 1 dynamic rows: fed at depth 257
DeepPlain == Nested(257, RowX(1))
\* a dynamic row under 257 dynamic rows: dynamic rows nested 257 levels deep
DeepDynamic == Nested(258, RowX(1))
\* the same, where the 257th level is the middle one of three rows of an array
DeepDynamicBetween == Nested(256, Dynamic(Str(TextArrayDynamic)))

\* the forms of `properties`, with the rows each one holds
DynamicStringArray == Dynamic(Str(TextArray))
DynamicStringObject == Dynamic(Str(TextObject))
DynamicObject == Dynamic(RowC("A", 9))
DynamicArray == Dynamic(Arr(<<RowC("A", 9), RowX(2)>>))
DynamicStringArrayUnknown == Dynamic(Str(TextArrayUnknown))
DynamicMissing == Obj(Named([component |-> Str(Text("dynamic"))]))
DynamicTruncated == Dynamic(Str(TextTruncated))
DynamicWord == Dynamic(Str(Text("A")))
DynamicStringNumber == Dynamic(Str(TextNumber))
DynamicNumber == Dynamic(Num(7))
DynamicNull == Dynamic(Null)
DynamicStringDeep == Dynamic(Str(TextDeepArray))
DynamicStringNested == Dynamic(Str(TextNestedString))

\* the rows fed to a context that expands dynamic rows
DynamicRows ==
    {RowC("A", 1), DynamicStringArray, DynamicStringObject, DynamicObject, DynamicArray,
     DynamicStringArrayUnknown, DynamicMissing, DynamicTruncated, DynamicWord,
     DynamicStringNumber, DynamicNumber, DynamicNull, DynamicStringDeep,
     DynamicStringNested, DeepPlain, DeepDynamic, DeepDynamicBetween}

\* the rows fed when renderings may fail
FaultyRows == {RowX(1), RowC("A", 1), RowC("nope", 1), Dynamic(Str(TextArray))}

\* the ways a rendering fails
Failures == {<<"template", FALSE>>, <<"template", TRUE>>, <<"sink", FALSE>>, <<"sink", TRUE>>}

Fuses == {NoFuse} \cup {Fuse(at, f[1], f[2]) : at \in 1..MaxFuse, f \in Failures}

\* the errors of a query that are handed to handle_error
Errors == {Error("boom", None),
           Error("boom", Some(Error("cause1", Some(Error("cause2", None)))))}

(***************************************************************************)
(* The state: one render context; the call running on it, with the loops   *)
(* of render_dynamic it is in; the calls that have returned and the        *)
(* context the last call started from; and one renderer driven directly,   *)
(* as the unit test of the renderer does, with the calls made on it.       *)
(***************************************************************************)
VARIABLES writer, current_component, shell_renderer, recursion_depth, current_statement,
          fuse, active, stack, returned, history, before, closed, rdr, output, calls

ctx_vars == <<writer, current_component, shell_renderer, recursion_depth, current_statement,
              fuse, active, stack, returned, history, before, closed>>
rdr_vars == <<rdr, output, calls>>
vars == <<writer, current_component, shell_renderer, recursion_depth, current_statement,
          fuse, active, stack, returned, history, before, closed, rdr, output, calls>>

\* the render context of the current state, with what is left of the fuse
Ctx(f) ==
    [writer |-> writer,
     current_component |-> current_component,
     shell_renderer |-> shell_renderer,
     recursion_depth |-> recursion_depth,
     current_statement |-> current_statement,
     fuse |-> f,
     err |-> ""]

\* the next state holds the fields of the context c
Fields(c) ==
    /\ writer' = c.writer
    /\ current_component' = c.current_component
    /\ shell_renderer' = c.shell_renderer
    /\ recursion_depth' = c.recursion_depth
    /\ current_statement' = c.current_statement

Call(op, arg, f, err) == [op |-> op, arg |-> arg, fuse |-> f, err |-> err]

\* a call returns in one step: the next state holds the context c it has returned
Returned(c, call) ==
    /\ Fields(c)
    /\ history' = Append(history, call)
    /\ before' = Ctx(NoFuse)
    /\ fuse' = NoFuse
    /\ UNCHANGED <<active, stack, returned>>

\* the running call returns: the next state holds the context c and the result err
Finished(c, err) ==
    /\ Fields(c)
    /\ history' = Append(history, Call(active[1].op, active[1].arg, active[1].fuse, err))
    /\ active' = None
    /\ stack' = <<>>
    /\ returned' = None
    /\ fuse' = NoFuse
    /\ UNCHANGED before

Idle == active = None

\* the calls among those made that were given a failing rendering, and whether one
\* more call may be given the fuse f
Faulty(made) == {i \in DOMAIN made : made[i].fuse # NoFuse}
MayFail(made, f) == IF f = NoFuse THEN TRUE ELSE Cardinality(Faulty(made)) < MaxFaults
Top == stack[Len(stack)]
Pop == SubSeq(stack, 1, Len(stack) - 1)

Init ==
    /\ writer = NewContext.writer
    /\ current_component = NewContext.current_component
    /\ shell_renderer = NewContext.shell_renderer
    /\ recursion_depth = NewContext.recursion_depth
    /\ current_statement = NewContext.current_statement
    /\ fuse = NoFuse
    /\ active = None
    /\ stack = <<>>
    /\ returned = None
    /\ history = <<>>
    /\ before = NewContext
    /\ closed = FALSE
    /\ rdr = NewRenderer("A")
    /\ output = <<>>
    /\ calls = <<>>

\* handle_row on one of the rows, with one of the fuses, while fewer than limit calls
\* have been made: it returns, or it enters the loop of render_dynamic
HandleRowFrom(rows, fuses, limit) ==
    /\ ~closed /\ Idle
    /\ Len(history) < limit
    /\ \E data \in rows, f \in fuses :
          /\ MayFail(history, f)
          /\ LET c == handle_row(Ctx(f), data) IN
             IF enters_loop(Ctx(f), data)
             THEN /\ Fields(c)
                  /\ fuse' = c.fuse
                  /\ active' = Some(Call("handle_row", data, f, ""))
                  /\ stack' = <<Loop(dynamic_properties(data)[1])>>
                  /\ before' = Ctx(NoFuse)
                  /\ UNCHANGED <<returned, history>>
             ELSE Returned(c, Call("handle_row", data, f, c.err))
    /\ UNCHANGED <<closed, rdr, output, calls>>

\* the loop of render_dynamic: recursion_depth += 1 and the call handle_row(&p), which
\* returns or enters a loop of its own
LoopCall ==
    /\ stack # <<>> /\ ~Top.called /\ Top.next <= Len(Top.properties)
    /\ LET p == Top.properties[Top.next]
           c0 == descend(Ctx(fuse))
           c == handle_row(c0, p)
           waiting == [stack EXCEPT ![Len(stack)].called = TRUE]
       IN  /\ Fields(c)
           /\ fuse' = c.fuse
           /\ IF enters_loop(c0, p)
              THEN stack' = Append(waiting, Loop(dynamic_properties(p)[1])) /\ returned' = None
              ELSE stack' = waiting /\ returned' = Some(c.err)
    /\ UNCHANGED <<active, history, before, closed, rdr, output, calls>>

\* the loop of render_dynamic after handle_row(&p) has returned res: recursion_depth -= 1
\* and res?, which leaves render_dynamic with the error or goes on to the next row
LoopReturn ==
    /\ stack # <<>> /\ Top.called /\ returned # None
    /\ LET c == ascend(Ctx(fuse)) IN
       IF returned[1] = ""
       THEN /\ Fields(c)
            /\ stack' = [stack EXCEPT ![Len(stack)].called = FALSE, ![Len(stack)].next = @ + 1]
            /\ returned' = None
            /\ UNCHANGED <<fuse, active, history, before>>
       ELSE IF Len(stack) = 1 THEN Finished(c, returned[1])
       ELSE /\ Fields(c)
            /\ stack' = Pop
            /\ UNCHANGED <<fuse, active, returned, history, before>>
    /\ UNCHANGED <<closed, rdr, output, calls>>

\* the loop of render_dynamic has fed every row: render_dynamic returns Ok
LoopEnd ==
    /\ stack # <<>> /\ ~Top.called /\ Top.next > Len(Top.properties)
    /\ IF Len(stack) = 1 THEN Finished(Ctx(fuse), "")
       ELSE /\ stack' = Pop
            /\ returned' = Some("")
            /\ UNCHANGED <<writer, current_component, shell_renderer, recursion_depth,
                           current_statement, fuse, active, history, before>>
    /\ UNCHANGED <<closed, rdr, output, calls>>

FinishQueryWithin(limit) ==
    /\ ~closed /\ Idle
    /\ Len(history) < limit
    /\ LET c == finish_query(Ctx(NoFuse)) IN Returned(c, Call("finish_query", Null, NoFuse, c.err))
    /\ UNCHANGED <<closed, rdr, output, calls>>

HandleErrorFrom(fuses, limit) ==
    /\ ~closed /\ Idle
    /\ Len(history) < limit
    /\ \E error \in Errors, f \in fuses :
          /\ MayFail(history, f)
          /\ LET c == handle_error(Ctx(f), error) IN
             Returned(c, Call("handle_error", error, f, c.err))
    /\ UNCHANGED <<closed, rdr, output, calls>>

CloseFrom(fuses) ==
    /\ ~closed /\ Idle
    /\ \E f \in fuses :
          /\ MayFail(history, f)
          /\ LET c == close(Ctx(f)) IN Returned(c, Call("close", Null, f, c.err))
    /\ closed' = TRUE
    /\ UNCHANGED <<rdr, output, calls>>

\* a response whose renderings all succeed
HandleRow == HandleRowFrom(Rows, {NoFuse}, MaxCalls)
FinishQuery == FinishQueryWithin(MaxCalls)
HandleError == HandleErrorFrom({NoFuse}, MaxCalls)
Close == CloseFrom({NoFuse})

Next == HandleRow \/ LoopCall \/ LoopReturn \/ LoopEnd \/ FinishQuery \/ HandleError \/ Close

Spec == Init /\ [][Next]_vars

\* a response in which any rendering may fail
FaultyHandleRow == HandleRowFrom(FaultyRows, Fuses, MaxFaultyCalls)
FaultyFinishQuery == FinishQueryWithin(MaxFaultyCalls)
FaultyHandleError == HandleErrorFrom(Fuses, MaxFaultyCalls)
FaultyClose == CloseFrom(Fuses)

NextFaulty ==
    \/ FaultyHandleRow \/ LoopCall \/ LoopReturn \/ LoopEnd
    \/ FaultyFinishQuery \/ FaultyHandleError \/ FaultyClose

SpecFaulty == Init /\ [][NextFaulty]_vars

\* a response made of dynamic rows, nothing failing in the renderings
HandleDynamicRow == HandleRowFrom(DynamicRows, {NoFuse}, MaxDynamicCalls)

NextDynamic == HandleDynamicRow \/ LoopCall \/ LoopReturn \/ LoopEnd \/ Close

SpecDynamic == Init /\ [][NextDynamic]_vars

\* the same with the ends of statements and the errors of a query in between
DynamicFinishQuery == FinishQueryWithin(MaxDynamicCalls)
DynamicHandleError == HandleErrorFrom({NoFuse}, MaxDynamicCalls)

NextRecursion == NextDynamic \/ DynamicFinishQuery \/ DynamicHandleError

SpecRecursion == Init /\ [][NextRecursion]_vars

\* the render context goes out of scope without close(): its fields are dropped, and
\* neither RenderContext nor SplitTemplateRenderer has a destructor that renders
Drop ==
    /\ ~closed /\ Idle
    /\ Returned(Ctx(NoFuse), Call("drop", Null, NoFuse, ""))
    /\ closed' = TRUE
    /\ UNCHANGED <<rdr, output, calls>>

\* a response whose caller may give up the render context at any point
NextDropped == Next \/ Drop

SpecDropped == Init /\ [][NextDropped]_vars

(***************************************************************************)
(* The renderer driven directly: render_start, render_item and render_end  *)
(* in any order, each rendering at most one zone, which may fail.          *)
(***************************************************************************)
StartData == {Obj(Named([name |-> Str(Text("SQL"))])), Null}
ItemData == {RowX(1), RowX(2)}

RendererFuses == {NoFuse} \cup {Fuse(1, f[1], f[2]) : f \in Failures}

RendererReturned(o, call) ==
    /\ rdr' = o.rdr
    /\ output' = o.writer
    /\ calls' = Append(calls, call)

RenderStart ==
    /\ Len(calls) < MaxRendererCalls
    /\ \E data \in StartData, f \in RendererFuses :
          /\ MayFail(calls, f)
          /\ LET o == render_start(rdr, output, f, data) IN
             RendererReturned(o, Call("render_start", data, f, o.err))
    /\ UNCHANGED ctx_vars

RenderItem ==
    /\ Len(calls) < MaxRendererCalls
    /\ \E data \in ItemData, f \in RendererFuses :
          /\ MayFail(calls, f)
          /\ LET o == render_item(rdr, output, f, data) IN
             RendererReturned(o, Call("render_item", data, f, o.err))
    /\ UNCHANGED ctx_vars

RenderEnd ==
    /\ Len(calls) < MaxRendererCalls
    /\ \E f \in RendererFuses :
          /\ MayFail(calls, f)
          /\ LET o == render_end(rdr, output, f) IN
             RendererReturned(o, Call("render_end", Null, f, o.err))
    /\ UNCHANGED ctx_vars

NextRenderer == RenderStart \/ RenderItem \/ RenderEnd

SpecRenderer == Init /\ [][NextRenderer]_vars

(***************************************************************************)
(* What the properties below speak of                                      *)
(***************************************************************************)
LastCall == history[Len(history)]

\* the calls made so far, without their results
Inputs == [i \in DOMAIN history |-> <<history[i].op, history[i].arg, history[i].fuse>>]

\* the run that feeds the given rows to a fresh context and closes it, nothing failing
RunOf(rows) ==
    [i \in 1..(Len(rows) + 1) |->
        IF i <= Len(rows) THEN <<"handle_row", rows[i], NoFuse>> ELSE <<"close", Null, NoFuse>>]

IsShellChunk(chunk) == chunk.tpl = "shell"
IsComponentChunk(chunk) == chunk.tpl # "shell"

\* the zones the component renderers have rendered, in order
ComponentEvents ==
    LET w == SelectSeq(writer, IsComponentChunk) IN
    [i \in DOMAIN w |-> <<w[i].zone, w[i].tpl>>]

\* how many chunks of the sink w are the given zone of the given template
Count(w, zone, tpl) ==
    Cardinality({i \in DOMAIN w : w[i].zone = zone /\ w[i].tpl = tpl})

Started(r) == r.block_context # None

(***************************************************************************)
(* C1  Component switching                                                 *)
(***************************************************************************)
SwitchRows == <<RowC("A", 1), RowC("A", 1), RowC("B", 3), RowC("A", 1)>>

\* C1 as claimed: rows with component A, A, B, A and then close() give the
\* component events start(A), item, item, end(A), start(B), end(B), start(A),
\* item, end(A).
C1_Original ==
    Inputs = RunOf(SwitchRows) =>
        ComponentEvents = << <<"before_list", "A">>, <<"list_content", "A">>,
                             <<"list_content", "A">>, <<"after_list", "A">>,
                             <<"before_list", "B">>, <<"after_list", "B">>,
                             <<"before_list", "A">>, <<"list_content", "A">>,
                             <<"after_list", "A">> >>

\* C1 amended: every row that carries a `component` opens a new renderer with the
\* row as the data of its render_start, after ending the open one; rows A, A, B, A
\* and close() give start(A), end(A), start(A), end(A), start(B), end(B), start(A),
\* end(A) and no item at all.
C1_SwitchOpensEachRow ==
    Inputs = RunOf(SwitchRows) =>
        /\ ComponentEvents = << <<"before_list", "A">>, <<"after_list", "A">>,
                                <<"before_list", "A">>, <<"after_list", "A">>,
                                <<"before_list", "B">>, <<"after_list", "B">>,
                                <<"before_list", "A">>, <<"after_list", "A">> >>
        /\ LET w == SelectSeq(writer, IsComponentChunk) IN
           \A i \in 1..4 : w[2 * i - 1].data = SwitchRows[i] /\ w[2 * i].parent = SwitchRows[i]
        /\ \A i \in DOMAIN history : history[i].err = ""

C1_Witness == Inputs = RunOf(SwitchRows) /\ closed

(***************************************************************************)
(* C2  Row count fidelity at the dispatcher                                *)
(***************************************************************************)
\* the runs of C2: N >= 1 rows without `component`, then close()
PlainRows == {RowX(1), RowX(2)}
IsPlainRun ==
    /\ Len(history) >= 2
    /\ \A i \in 1..(Len(history) - 1) :
          Inputs[i][1] = "handle_row" /\ Inputs[i][2] \in PlainRows /\ Inputs[i][3] = NoFuse
    /\ Inputs[Len(history)] = <<"close", Null, NoFuse>>

\* the list_content chunk of the default component for a row
DefaultItem(row, parent, index) ==
    [zone |-> "list_content", tpl |-> "default", data |-> row, parent |-> parent,
     row_index |-> index]
ShellItem(parent, index) ==
    [zone |-> "list_content", tpl |-> "shell", data |-> Null, parent |-> parent,
     row_index |-> index]

\* C2 as claimed: N rows without `component` and close() render the list_content of
\* `default` exactly N times, once per row in arrival order, between one before_list
\* and one after_list.
C2_Original ==
    IsPlainRun =>
        LET n == Len(history) - 1
            w == SelectSeq(writer, IsComponentChunk)
        IN  /\ Len(w) = n + 2
            /\ w[1].zone = "before_list" /\ w[1].tpl = "default"
            /\ \A i \in 1..n : w[i + 1].zone = "list_content" /\ w[i + 1].tpl = "default"
                               /\ w[i + 1].data = history[i].arg
            /\ w[n + 2].zone = "after_list" /\ w[n + 2].tpl = "default"

\* C2 amended: the first row is the data of the render_start of the shell and of
\* `default` and is no item; the N - 1 rows after it each render list_content once, in
\* arrival order with row_index 0, 1, ..., each followed by the shell's list_content,
\* between one before_list and one after_list of `default`.
C2_FirstRowOpensDefault ==
    IsPlainRun =>
        LET n == Len(history) - 1
            first == history[1].arg
        IN  /\ Len(writer) = 2 * n + 2
            /\ writer[1] = [zone |-> "before_list", tpl |-> "shell", data |-> first]
            /\ writer[2] = [zone |-> "before_list", tpl |-> "default", data |-> first]
            /\ \A i \in 2..n :
                  /\ writer[2 * i - 1] = DefaultItem(history[i].arg, first, i - 2)
                  /\ writer[2 * i] = ShellItem(first, i - 2)
            /\ writer[2 * n + 1] = [zone |-> "after_list", tpl |-> "default",
                                    parent |-> first]
            /\ writer[2 * n + 2] = [zone |-> "after_list", tpl |-> "shell",
                                    parent |-> first]

C2_Witness ==
    /\ IsPlainRun
    /\ Len(history) = 4
    /\ history[2].arg # history[3].arg
    /\ Count(writer, "list_content", "default") = 2

(***************************************************************************)
(* C3  Error non-fatality                                                  *)
(***************************************************************************)
\* one row into component A, an item, an error, and one more item
ErrorRun == << <<"handle_row", RowC("A", 1), NoFuse>>, <<"handle_row", RowX(1), NoFuse>>,
               <<"handle_error", Error("boom", None), NoFuse>>,
               <<"handle_row", RowX(2), NoFuse>> >>

\* C3 as claimed: handle_error called while a component is Started returns Ok with
\* that same renderer current, still Started, its block context and row_index kept;
\* and a row after the error is rendered by it, after the error block.
C3_ErrorKeepsComponentStarted ==
    /\ ( /\ Idle /\ Len(history) > 0
         /\ LastCall.op = "handle_error"
         /\ LastCall.err = ""
         /\ before.current_component # None
         /\ Started(before.current_component[1]) )
       => current_component = before.current_component
    /\ Inputs = ErrorRun =>
          \E i, j, k \in DOMAIN writer :
              /\ i < j /\ j < k
              /\ writer[i].zone = "list_content" /\ writer[i].tpl = "A"
              /\ writer[i].data = RowX(1)
              /\ writer[j].tpl = "error"
              /\ writer[k].zone = "list_content" /\ writer[k].tpl = "A"
              /\ writer[k].data = RowX(2) /\ writer[k].row_index = 1

(***************************************************************************)
(* C4  Shell always closes                                                 *)
(***************************************************************************)
\* C4 as claimed: once close() has returned, the shell's render_start has been
\* performed exactly once and its render_end exactly once, and the shell's
\* after_list is the last thing written.
C4_ShellStartedAndEndedOnce ==
    closed =>
        /\ Count(writer, "before_list", "shell") = 1
        /\ Count(writer, "after_list", "shell") = 1
        /\ writer[Len(writer)].zone = "after_list"
        /\ writer[Len(writer)].tpl = "shell"

(***************************************************************************)
(* C5  Recursion bound invariant                                           *)
(***************************************************************************)
\* C5 as claimed: in every reachable state, the states inside the nested handle_row
\* calls of a dynamic expansion included, recursion_depth is at most
\* MAX_RECURSION_DEPTH.
C5_RecursionDepthBounded == recursion_depth <= MAX_RECURSION_DEPTH

(***************************************************************************)
(* C6  Renderer protocol output with parent scope                          *)
(***************************************************************************)
\* the calls on the renderer are render_start, render_item N times, render_end, and
\* all have succeeded
IsProtocolRun ==
    /\ Len(calls) >= 2
    /\ calls[1].op = "render_start"
    /\ calls[Len(calls)].op = "render_end"
    /\ \A i \in 2..(Len(calls) - 1) : calls[i].op = "render_item"
    /\ \A i \in DOMAIN calls : calls[i].err = ""

\* C6: after render_start(d), render_item(x_1) .. render_item(x_N), render_end(), all
\* succeeding, the sink holds before_list on d, then list_content on each x_i in call
\* order with parent scope d, then after_list with scope d, and nothing else.
C6_ProtocolOutput ==
    IsProtocolRun =>
        LET d == calls[1].arg
            last == Len(calls)
        IN  /\ Len(output) = last
            /\ output[1] = [zone |-> "before_list", tpl |-> rdr.name, data |-> d]
            /\ \A i \in 2..(last - 1) :
                  /\ output[i].zone = "list_content" /\ output[i].tpl = rdr.name
                  /\ output[i].data = calls[i].arg
                  /\ output[i].parent = d
            /\ output[last] = [zone |-> "after_list", tpl |-> rdr.name, parent |-> d]

C6_Witness ==
    /\ IsProtocolRun
    /\ Len(calls) = 4
    /\ calls[1].arg = Obj(Named([name |-> Str(Text("SQL"))]))
    /\ calls[2].arg = RowX(1) /\ calls[3].arg = RowX(2)

(***************************************************************************)
(* C7  row_index                                                           *)
(***************************************************************************)
\* the chunks of the sink w before position i that are list_content and come after
\* the last before_list before i
ItemsSinceStart(w, i) ==
    {j \in 1..(i - 1) :
        /\ w[j].zone = "list_content"
        /\ \A m \in (j + 1)..(i - 1) : w[m].zone # "before_list"}

\* C7: every list_content that render_item renders sees as row_index the number of
\* list_content renderings of the renderer since its render_start, and a render_start
\* that succeeds leaves row_index = 0.
C7_RowIndexCounts ==
    /\ \A i \in DOMAIN output :
          output[i].zone = "list_content" =>
              output[i].row_index = Cardinality(ItemsSinceStart(output, i))
    /\ ( /\ Len(calls) > 0
         /\ calls[Len(calls)].op = "render_start"
         /\ calls[Len(calls)].err = "" ) => rdr.row_index = 0

C7_Witness ==
    /\ Len(calls) = 3 /\ Len(output) = 3
    /\ output[2].zone = "list_content" /\ output[2].row_index = 0
    /\ output[3].zone = "list_content" /\ output[3].row_index = 1

(***************************************************************************)
(* C8  Dynamic expansion input forms                                       *)
(***************************************************************************)
\* handle_row has just returned from a dynamic row fed at depth 0 to a context that
\* had a current component
ReturnedFromDynamic(row) ==
    /\ Idle /\ Len(history) > 0
    /\ LastCall.op = "handle_row" /\ LastCall.arg = row
    /\ before.current_component # None

\* the context and the result of the last call are those of c
SameAs(c) ==
    /\ writer = c.writer
    /\ current_component = c.current_component
    /\ shell_renderer = c.shell_renderer
    /\ recursion_depth = c.recursion_depth
    /\ current_statement = c.current_statement
    /\ LastCall.err = c.err

\* the rows fed directly, one handle_row after the other, up to the first that fails
RECURSIVE FedDirectly(_, _, _)
FedDirectly(c, rows, i) ==
    IF i > Len(rows) \/ c.err # "" THEN c
    ELSE FedDirectly(handle_row(c, rows[i]), rows, i + 1)

\* the dynamic rows whose `properties` hold rows, with the rows that are rendered in
\* the end (those of the inner text, for a dynamic row within the text); and those
\* that hold none
AcceptedForms ==
    { <<DynamicStringNested, <<RowX(1)>> >> } \cup
    { <<DynamicStringArray, <<RowC("A", 9), RowX(2)>> >>,
      <<DynamicStringObject, <<RowC("B", 3)>> >>,
      <<DynamicObject, <<RowC("A", 9)>> >>,
      <<DynamicStringArrayUnknown, <<Obj(Named([component |-> Str(Text("nope"))])), RowX(2)>> >> }
ArrayForm == <<DynamicArray, <<RowC("A", 9), RowX(2)>> >>
RejectedForms ==
    {DynamicMissing, DynamicTruncated, DynamicWord, DynamicStringNumber, DynamicNumber,
     DynamicNull, DynamicStringDeep}

Accepts(form) ==
    ReturnedFromDynamic(form[1]) => SameAs(FedDirectly(before, form[2], 1))
Rejects(row) ==
    ReturnedFromDynamic(row) => SameAs([before EXCEPT !.err = "BadDynamic"])

\* C8: `properties` is accepted as a string holding an array of objects or one object,
\* as an object, and as an array of objects; its objects are fed in order with the
\* effect of feeding them directly; any other `properties` fails and feeds nothing.
C8_DynamicInputForms ==
    /\ \A form \in AcceptedForms \cup {ArrayForm} : Accepts(form)
    /\ \A row \in RejectedForms : Rejects(row)

(***************************************************************************)
(* C9  Recursion limit failure                                             *)
(***************************************************************************)
\* C9: a dynamic row fed at depth 0 to a context with a current component, that nests
\* dynamic rows 257 levels deep, fails with RecursionLimit; the rows that come after
\* the failing one in an enclosing expansion are not fed, and nothing is written after
\* the failure.
C9_RecursionLimit ==
    /\ ReturnedFromDynamic(DeepDynamic) => SameAs([before EXCEPT !.err = "RecursionLimit"])
    /\ ReturnedFromDynamic(DeepDynamicBetween) =>
          SameAs([handle_row(before, RowX(1)) EXCEPT !.err = "RecursionLimit"])

C9_Witness ==
    /\ ReturnedFromDynamic(DeepDynamicBetween)
    /\ LastCall.err = "RecursionLimit"
    /\ Len(writer) > Len(before.writer)

(***************************************************************************)
(* C10  close() and the errors of render_end                               *)
(***************************************************************************)
ComponentStartedBefore ==
    before.current_component # None /\ Started(before.current_component[1])

\* close() has returned, and the render_end of the open component has failed in it
ComponentEndFailed ==
    /\ closed /\ ComponentStartedBefore
    /\ LastCall.fuse.at = 1

\* close() has returned, and the render_end of the shell has failed in it, after
\* the render_end of the open component if there was one
ShellEndFailed ==
    /\ closed /\ Started(before.shell_renderer)
    /\ LastCall.fuse.at = IF ComponentStartedBefore THEN 2 ELSE 1

\* what close() has written
Written == SubSeq(writer, Len(before.writer) + 1, Len(writer))

\* C10: a render_end that fails in close() is logged and nothing else: no error
\* component is opened, the shell is not started, nothing is written for it.
C10_CloseOnlyLogs ==
    (ComponentEndFailed \/ ShellEndFailed) =>
        \A i \in DOMAIN Written :
            /\ Written[i].tpl # "error"
            /\ ~(Written[i].tpl = "shell" /\ Written[i].zone = "before_list")

\* the error of the rendering that has failed in the last call, and what that
\* rendering has left in the sink of its zone
Failure == RenderError(IF LastCall.fuse.source = "sink" THEN "Write" ELSE "Render")
LeftOf(chunk) == IF LastCall.fuse.part THEN <<Part(chunk)>> ELSE <<>>

(***************************************************************************)
(* C11  Matching close                                                     *)
(***************************************************************************)
\* the after_list chunks of the sink w that end the component started at position i:
\* those after i with no before_list of a component in between
EndsOf(w, i) ==
    {j \in (i + 1)..Len(w) :
        /\ w[j].zone = "after_list"
        /\ \A m \in (i + 1)..(j - 1) : w[m].zone # "before_list"}

\* the only renderings that fail in the run are those of a handle_row on a row
\* without `component`
OnlyItemsFail ==
    \A i \in DOMAIN history :
        history[i].fuse # NoFuse => history[i].op = "handle_row" /\ history[i].arg = RowX(1)

\* C11 as claimed: once close() has returned, every component renderer whose
\* render_start succeeded has had its after_list rendered exactly once, also when a
\* render_item or a handle_row has failed on the way.
C11_MatchingClose ==
    (closed /\ OnlyItemsFail) =>
        LET w == SelectSeq(writer, IsComponentChunk) IN
        \A i \in DOMAIN w :
            w[i].zone = "before_list" => Cardinality(EndsOf(w, i)) = 1

(***************************************************************************)
(* C12  finish_query frame                                                 *)
(***************************************************************************)
\* a component opened, an item, the end of the statement, and one more item
FinishRun == << <<"handle_row", RowC("A", 1), NoFuse>>, <<"handle_row", RowX(1), NoFuse>>,
                <<"finish_query", Null, NoFuse>>, <<"handle_row", RowX(2), NoFuse>> >>

\* C12: finish_query succeeds, adds 1 to current_statement and leaves the current
\* component, the shell renderer, recursion_depth and the sink as they were; a
\* component open before it is open after it and renders the rows of the next
\* statement as its next items.
C12_FinishQueryFrame ==
    /\ (Idle /\ Len(history) > 0 /\ LastCall.op = "finish_query") =>
          /\ LastCall.err = ""
          /\ current_statement = before.current_statement + 1
          /\ current_component = before.current_component
          /\ shell_renderer = before.shell_renderer
          /\ recursion_depth = before.recursion_depth
          /\ writer = before.writer
    /\ (Idle /\ Inputs = FinishRun) =>
          /\ LastCall.err = ""
          /\ Written = << [zone |-> "list_content", tpl |-> "A", data |-> RowX(2),
                           parent |-> RowC("A", 1), row_index |-> 1],
                         ShellItem(Null, 1) >>
          /\ current_component # None /\ Started(current_component[1])

C12_Witness == Idle /\ Inputs = FinishRun /\ current_statement = 2 /\ Len(writer) = 6

(***************************************************************************)
(* C13  Finalization on drop                                               *)
(***************************************************************************)
\* C13 as claimed: however the life of a render context ends, by close() or by being
\* dropped, the end of the open component is rendered and then the end of the shell.
C13_FinalizedOnDrop ==
    (closed /\ ComponentStartedBefore /\ Started(before.shell_renderer)) =>
        Written = << [zone |-> "after_list", tpl |-> before.current_component[1].name,
                      parent |-> before.current_component[1].block_context[1]],
                     [zone |-> "after_list", tpl |-> "shell",
                      parent |-> before.shell_renderer.block_context[1]] >>

(***************************************************************************)
(* C14  Renderer state guard                                               *)
(***************************************************************************)
\* the call that the step has made on the renderer
NewCall == calls'[Len(calls')]

\* C14: on a renderer that is not Started (render_start never succeeded, or
\* render_end has run, or an item has failed), render_item and render_end return Ok,
\* write nothing and leave the renderer as it is; so after_list is never rendered more
\* often than before_list.
C14_StateGuard ==
    /\ [](Count(output, "after_list", rdr.name) <= Count(output, "before_list", rdr.name))
    /\ [][ ( /\ ~Started(rdr)
             /\ Len(calls') = Len(calls) + 1
             /\ NewCall.op \in {"render_item", "render_end"} )
           => (rdr' = rdr /\ output' = output /\ NewCall.err = "") ]_vars

\* render_end twice after a render_start, then render_item: one after_list, no item
C14_Witness ==
    /\ Len(calls) = 4
    /\ calls[1].op = "render_start" /\ calls[1].err = ""
    /\ calls[2].op = "render_end" /\ calls[2].err = ""
    /\ calls[3].op = "render_end" /\ calls[3].err = ""
    /\ calls[4].op = "render_item" /\ calls[4].err = ""
    /\ Len(output) = 2
    /\ ~Started(rdr) /\ rdr.row_index = 0

(***************************************************************************)
(* C15  Failure of render_item                                             *)
(***************************************************************************)
\* C15 as claimed: when the rendering of list_content fails in render_item, the outer
\* block context is stashed again: the renderer is still Started after the call, so
\* that later items and the end are rendered.
C15_ItemFailureKeepsStarted ==
    ( /\ Len(calls) > 0
      /\ calls[Len(calls)].op = "render_item"
      /\ calls[Len(calls)].err # "" )
    => Started(rdr)

(***************************************************************************)
(* C16  No re-entry of error handling                                      *)
(***************************************************************************)
\* handle_error has just returned
ReturnedFromError == Idle /\ Len(history) > 0 /\ LastCall.op = "handle_error"

\* the sink after the same handle_error with no rendering failing
Unfailing == handle_error(before, LastCall.arg).writer

\* C16: when a step of handle_error fails (the k-th rendering of the call), handle_error
\* returns that error and does nothing more: the sink holds what the k - 1 renderings
\* before it wrote, then what the failed one wrote of its zone, and nothing after
\* that, and no second error block is opened; in any handle_error at most one error
\* component is started.
C16_NoReentry ==
    ReturnedFromError =>
        LET n == Len(before.writer)
            k == LastCall.fuse.at
        IN  /\ IF k = 0 \/ k > Len(Unfailing) - n
               THEN LastCall.err = "" /\ writer = Unfailing
               ELSE /\ LastCall.err = Failure.description
                    /\ writer = SubSeq(Unfailing, 1, n + k - 1) \o LeftOf(Unfailing[n + k])
            /\ Count(Written, "before_list", "error") <= 1

\* the rendering of the error item fails in a handle_error that has ended a component
C16_Witness ==
    /\ ReturnedFromError /\ ComponentStartedBefore
    /\ LastCall.fuse = Fuse(3, "template", FALSE) /\ LastCall.err = "Render"
    /\ Len(Written) = 2 /\ Written[2].tpl = "error"

(***************************************************************************)
(* C17  Shell lockstep                                                     *)
(***************************************************************************)
IsItem(chunk) == chunk.zone = "list_content"

\* C17 as claimed: the shell renders its list_content once right after each item that
\* the current component has rendered, and at no other time.
C17_ShellLockstep ==
    \A i \in DOMAIN writer :
        /\ (IsItem(writer[i]) /\ IsShellChunk(writer[i])) =>
              (i > 1 /\ IsItem(writer[i - 1]) /\ IsComponentChunk(writer[i - 1]))
        /\ (IsItem(writer[i]) /\ IsComponentChunk(writer[i])) =>
              (i < Len(writer) /\ IsItem(writer[i + 1]) /\ IsShellChunk(writer[i + 1]))

(***************************************************************************)
(* C18  First-row dispatch                                                 *)
(***************************************************************************)
\* handle_row has just returned from a row fed while no component was current
ReturnedFromFirstRow ==
    /\ Idle /\ Len(history) > 0
    /\ LastCall.op = "handle_row"
    /\ before.current_component = None

StartChunk(name, data) == [zone |-> "before_list", tpl |-> name, data |-> data]

\* what handle_row does with the row when no component is current: the shell is started
\* with shell_data, and the component `name` is looked up and opened with the row
DispatchedTo(name, shell_data, row) ==
    IF name \in Registry
    THEN /\ LastCall.err = ""
         /\ Written = <<StartChunk("shell", shell_data), StartChunk(name, row)>>
         /\ current_component =
                Some([name |-> name, block_context |-> Some(row), row_index |-> 0])
    ELSE /\ LastCall.err = "UnknownComponent"
         /\ Written = <<StartChunk("shell", shell_data)>>
         /\ current_component = None

\* the dispatch of C18, by the `component` of the row
FirstRowDispatched ==
    LET row == LastCall.arg IN
    IF ~has(row, "component") \/ get(row, "component").t # "str"
           \/ get(row, "component").s = Text("head")
    THEN DispatchedTo("default", row, row)
    ELSE DispatchedTo(get(row, "component").s[1].w, Null, row)

\* C18 as claimed: when handle_row gets a row while no component is current, the shell
\* is Fresh until then and started by this call: with the row, and `default` opened
\* with the row, if `component` is absent, not a string or "head"; with null, and the
\* component x looked up and opened with the row, for any other name x, "dynamic"
\* included.
C18_FirstRowDispatch ==
    ReturnedFromFirstRow =>
        /\ ~Started(before.shell_renderer)
        /\ FirstRowDispatched

(***************************************************************************)
(* C19  recursion_depth is restored                                        *)
(***************************************************************************)
\* the loops of render_dynamic that are waiting for their handle_row to return
NestedCalls == {i \in DOMAIN stack : stack[i].called}

\* C19: recursion_depth is one more for each nested handle_row call in progress and
\* is back where it was when the call has returned, Ok or Err; so it is 0 whenever no
\* call is running on the context, after a handle_row that failed deep in an expansion
\* too, and handle_error and finish_query leave it as it is.
C19_RecursionDepthRestored ==
    /\ recursion_depth = Cardinality(NestedCalls)
    /\ Idle => recursion_depth = 0
    /\ ( /\ Idle /\ Len(history) > 0
         /\ LastCall.op \in {"handle_error", "finish_query"} )
       => recursion_depth = before.recursion_depth

\* a handle_row that failed 257 levels deep, after an item, has returned
C19_Witness ==
    /\ ReturnedFromDynamic(DeepDynamicBetween)
    /\ LastCall.err = "RecursionLimit"
    /\ Len(Written) = 2
    /\ recursion_depth = 0

(***************************************************************************)
(* C20  At most one live component                                         *)
(***************************************************************************)
\* handle_row has just returned from a row that names a component to open, fed while
\* a component was Started
ReturnedFromSwitch ==
    /\ Idle /\ Len(history) > 0
    /\ LastCall.op = "handle_row"
    /\ ComponentStartedBefore
    /\ new_component_of(LastCall.arg) # None
    /\ ~is_dynamic(before, LastCall.arg)

\* the end of the component that was current before the last call
EndOfPrevious ==
    [zone |-> "after_list", tpl |-> before.current_component[1].name,
     parent |-> before.current_component[1].block_context[1]]

\* C20: no second component renderer is Started beside the current one. The component
\* that handle_error saves on the side while the error component is open has had its
\* render_end performed, and is the one current again afterwards; and opening a
\* component performs the render_end of the previous one first: its after_list is the
\* first thing written, or, if that rendering fails, nothing more is written and
\* nothing is opened.
C20_OneLiveComponent ==
    /\ ReturnedFromError =>
          LET c1 == error_entry([before EXCEPT !.fuse = LastCall.fuse]) IN
          (c1.err = "" /\ c1.current_component # None) =>
              /\ ~Started(c1.current_component[1])
              /\ LastCall.err = "" => current_component = c1.current_component
    /\ ReturnedFromSwitch =>
          IF LastCall.fuse.at = 1
          THEN /\ LastCall.err = Failure.description /\ Written = LeftOf(EndOfPrevious)
               /\ current_component # None /\ ~Started(current_component[1])
               /\ current_component[1].name = before.current_component[1].name
          ELSE Len(Written) >= 1 /\ Written[1] = EndOfPrevious

\* handle_error has rendered an error block while a component was open
C20_Witness ==
    /\ ReturnedFromError /\ ComponentStartedBefore
    /\ LastCall.err = ""
    /\ Written[1] = EndOfPrevious
    /\ Count(Written, "before_list", "error") = 1
    /\ current_component # None /\ ~Started(current_component[1])

====
